---- MODULE Spec2Model ----
(***************************************************************************)
(* Model of the code-block renderer of the blog (Code.js): the function    *)
(* calculateLinesToHighlight, which parses the meta string of a fenced     *)
(* code block ("{2,4-6,9}") into a per-line predicate, and the Code        *)
(* component, which builds the predicate once and queries it per line.     *)
(*                                                                         *)
(* Strings are sequences of one-character strings.  JavaScript values      *)
(* that the code computes with (numbers, NaN, undefined) are records with  *)
(* a type tag, so that the language's comparison rules can be modelled.    *)
(***************************************************************************)
EXTENDS Integers, Sequences, FiniteSets

VARIABLES
    pc,                  \* per block: position of the Code component
    annotation,          \* per block: what the author wrote on the fence
    metastring,          \* per block: the metastring prop handed to Code
    shouldHighlightLine, \* per block: the closure returned by the builder
    lines,               \* per block: number of tokenized lines
    rendered,            \* per block: the line <div>s produced so far
    RegEx,               \* the RegExp object of the latest builder call
    calls,               \* per block: the calls of the closure, in order
    builds,              \* per block: builder calls of the current render
    frame                \* the call that is running, when its steps are followed

vars == <<pc, annotation, metastring, shouldHighlightLine, lines, rendered, RegEx,
          calls, builds, frame>>

(***************************************************************************)
(* Bounds                                                                  *)
(***************************************************************************)
MaxNum == 2          \* largest line number written in generated tokens
MaxTokens == 2       \* most tokens in a generated bracket group
MaxRawLen == 4       \* longest free-form meta string
MaxIndex == 12       \* largest line index the properties query
MaxLines == 3        \* most tokenized lines of a rendered block
NumBlocks == 2       \* code blocks of the multi-block specification
MaxCalls == 2        \* most direct calls of one closure outside a render

Blocks == 1..NumBlocks
Indices == 0..MaxIndex

(***************************************************************************)
(* JavaScript values                                                       *)
(***************************************************************************)
Num(n) == [t |-> "number", v |-> n]
NaN == [t |-> "NaN", v |-> 0]
Undefined == [t |-> "undefined", v |-> 0]

\* a test that asks whether a value is there at all, 0 and NaN included
NotUndefined(x) == x.t # "undefined"

\* ToBoolean: 0, NaN and undefined are falsy
Truthy(x) == x.t = "number" /\ x.v # 0

\* x >= y and x <= y on ToNumber(x), ToNumber(y): any NaN operand gives false
\* (ToNumber(undefined) is NaN)
GreaterOrEqual(x, y) == x.t = "number" /\ y.t = "number" /\ x.v >= y.v
LessOrEqual(x, y) == x.t = "number" /\ y.t = "number" /\ x.v <= y.v

\* x === y: NaN is not equal to itself
StrictEquals(x, y) ==
    /\ x.t = y.t
    /\ x.t # "NaN"
    /\ (x.t = "number" => x.v = y.v)

\* arr[k] by destructuring, 1-based here: a missing element is undefined
Element(arr, k) == IF k <= Len(arr) THEN arr[k] ELSE Undefined

(***************************************************************************)
(* Strings                                                                 *)
(***************************************************************************)
Digits == <<"0", "1", "2", "3", "4", "5", "6", "7", "8", "9">>
IsDigit(c) == \E d \in 1..10 : Digits[d] = c
DigitVal(c) == (CHOOSE d \in 1..10 : Digits[d] = c) - 1
IsWhiteSpace(c) == c = " "

\* ToString(meta): the argument of RegExp.prototype.test / exec is converted
\* to a string; the value undefined becomes the text "undefined"
NoMeta == <<"#undefined">>
ToString(meta) ==
    IF meta = NoMeta
    THEN <<"u", "n", "d", "e", "f", "i", "n", "e", "d">>
    ELSE meta

\* String.prototype.split(sep) for a one-character separator
RECURSIVE Split(_, _)
Split(s, sep) ==
    IF \A k \in 1..Len(s) : s[k] # sep
    THEN <<s>>
    ELSE LET k == CHOOSE j \in 1..Len(s) :
                     s[j] = sep /\ \A h \in 1..(j - 1) : s[h] # sep
         IN <<SubSeq(s, 1, k - 1)>> \o Split(SubSeq(s, k + 1, Len(s)), sep)

\* the value of the longest prefix of decimal digits, most significant first
RECURSIVE DigitsValue(_, _)
DigitsValue(s, acc) ==
    IF s = <<>> \/ ~IsDigit(Head(s))
    THEN acc
    ELSE DigitsValue(Tail(s), acc * 10 + DigitVal(Head(s)))

RECURSIVE TrimStart(_)
TrimStart(s) ==
    IF s # <<>> /\ IsWhiteSpace(Head(s)) THEN TrimStart(Tail(s)) ELSE s

\* parseInt(y, 10): skip leading white space, take an optional sign, then the
\* longest run of digits; NaN when that run is empty
ParseInt(y, radix) ==
    LET t == TrimStart(y)
        neg == t # <<>> /\ Head(t) = "-"
        u == IF t # <<>> /\ Head(t) \in {"-", "+"} THEN Tail(t) ELSE t
    IN IF u = <<>> \/ ~IsDigit(Head(u))
       THEN NaN
       ELSE Num((IF neg THEN -1 ELSE 1) * DigitsValue(u, 0))

(***************************************************************************)
(* The regular expression /{([\d,-]+)}/                                    *)
(***************************************************************************)
\* a class that also admits letters and blanks
InClassWide(c) == IsDigit(c) \/ c \in {",", "-", "a", " "}

\* the character class [\d,-]
InClass(c) == IsDigit(c) \/ c = "," \/ c = "-"

\* number of consecutive class characters of s from the 1-based position from
RECURSIVE RunLength(_, _)
RunLength(s, from) ==
    IF from > Len(s) \/ ~InClass(s[from]) THEN 0 ELSE 1 + RunLength(s, from + 1)

\* Match of the pattern anchored at the 0-based index p: "{", then the greedy
\* + of the class (longest run first, giving characters back while the
\* closing brace does not follow), then "}".  The result is the 0-based index
\* just past the match, or -1.
MatchAt(s, p) ==
    IF p + 1 > Len(s) \/ s[p + 1] # "{"
    THEN -1
    ELSE LET run == RunLength(s, p + 2)
             ends == {k \in 1..run : p + 2 + k <= Len(s) /\ s[p + 2 + k] = "}"}
         IN IF ends = {}
            THEN -1
            ELSE p + 2 + (CHOOSE k \in ends : \A h \in ends : h <= k)

\* the engine tries the start indices in increasing order: the first wins
LastMatch(cands) == CHOOSE p \in cands : \A q \in cands : q <= p
FirstMatch(cands) == CHOOSE p \in cands : \A q \in cands : p <= q

NoMatch == [found |-> FALSE, index |-> 0, capture |-> <<>>]

\* a search that only tries the start of the string, as /^{([\d,-]+)}/ does
RegExpAnchoredExec(R, s) ==
    IF MatchAt(s, 0) = -1
    THEN [m |-> NoMatch, re |-> R]
    ELSE [m |-> [found |-> TRUE, index |-> 0,
                 capture |-> SubSeq(s, 2, MatchAt(s, 0) - 1)],
          re |-> R]

\* RegExpBuiltinExec, shared by RegEx.test and RegEx.exec: a global regular
\* expression starts at lastIndex and stores the end of its match there (0 on
\* failure); a non-global one starts at 0 and leaves lastIndex alone
RegExpBuiltinExec(R, s) ==
    LET from == IF R.global THEN R.lastIndex ELSE 0
        cands == {p \in from..(Len(s) - 1) : MatchAt(s, p) # -1}
    IN IF cands = {}
       THEN [m |-> NoMatch,
             re |-> IF R.global THEN [R EXCEPT !.lastIndex = 0] ELSE R]
       ELSE LET p == FirstMatch(cands)
                e == MatchAt(s, p)
            IN [m |-> [found |-> TRUE, index |-> p,
                       capture |-> SubSeq(s, p + 2, e - 1)],
                re |-> IF R.global THEN [R EXCEPT !.lastIndex = e] ELSE R]

\* line 7: the literal is evaluated at every call and gives a fresh object
\* without flags; old is the object of the previous call, which is dropped
NoRegEx == [global |-> FALSE, lastIndex |-> 0]
FreshGlobalRegEx(old) == [global |-> TRUE, lastIndex |-> 0]
HoistedGlobalRegEx(old) == [global |-> TRUE, lastIndex |-> old.lastIndex]
EvalRegExLiteral(old) == [global |-> FALSE, lastIndex |-> 0]

(***************************************************************************)
(* calculateLinesToHighlight and the closures it returns                   *)
(***************************************************************************)
\* the index used as the line number, without the shift
LineNumberUnshifted(index) == Num(index)

\* line 15
LineNumber(index) == Num(index + 1)

\* x > y
Greater(x, y) == x.t = "number" /\ y.t = "number" /\ x.v > y.v
Less(x, y) == x.t = "number" /\ y.t = "number" /\ x.v < y.v

\* a range test that leaves out the last line of the range
RangeTestEndExclusive(entry, lineNumber) ==
    LET start == Element(entry, 1)
        end == Element(entry, 2)
    IN IF Truthy(end)
       THEN GreaterOrEqual(lineNumber, start) /\ Less(lineNumber, end)
       ELSE StrictEquals(lineNumber, start)

\* a range test that leaves out the first line of the range
RangeTestStartExclusive(entry, lineNumber) ==
    LET start == Element(entry, 1)
        end == Element(entry, 2)
    IN IF Truthy(end)
       THEN Greater(lineNumber, start) /\ LessOrEqual(lineNumber, end)
       ELSE StrictEquals(lineNumber, start)

\* a range test that puts the bounds of a range in order first
RangeTestNormalised(entry, lineNumber) ==
    LET start == Element(entry, 1)
        end == Element(entry, 2)
    IN IF Truthy(end)
       THEN \/ GreaterOrEqual(lineNumber, start) /\ LessOrEqual(lineNumber, end)
            \/ GreaterOrEqual(lineNumber, end) /\ LessOrEqual(lineNumber, start)
       ELSE StrictEquals(lineNumber, start)

\* a range test that never looks at the end of a range
RangeTestUnbounded(entry, lineNumber) ==
    LET start == Element(entry, 1)
        end == Element(entry, 2)
    IN IF Truthy(end)
       THEN GreaterOrEqual(lineNumber, start)
       ELSE StrictEquals(lineNumber, start)

\* lines 17-19, the callback of some: ([start, end]) => end ? ... : ...
RangeTest(entry, lineNumber) ==
    LET start == Element(entry, 1)
        end == Element(entry, 2)
    IN IF Truthy(end)
       THEN GreaterOrEqual(lineNumber, start) /\ LessOrEqual(lineNumber, end)
       ELSE StrictEquals(lineNumber, start)

\* only the first range is looked at
InRangeFirstOnly(lineNumbers, index) ==
    /\ lineNumbers # <<>>
    /\ LET start == Element(lineNumbers[1], 1)
           end == Element(lineNumbers[1], 2)
       IN IF Truthy(end)
          THEN GreaterOrEqual(Num(index + 1), start) /\ LessOrEqual(Num(index + 1), end)
          ELSE StrictEquals(Num(index + 1), start)

\* every in place of some
InRangeEvery(lineNumbers, index) ==
    \A k \in 1..Len(lineNumbers) :
        LET start == Element(lineNumbers[k], 1)
            end == Element(lineNumbers[k], 2)
        IN IF Truthy(end)
           THEN GreaterOrEqual(Num(index + 1), start) /\ LessOrEqual(Num(index + 1), end)
           ELSE StrictEquals(Num(index + 1), start)

\* lines 14-22: the closure over lineNumbers
InRange(lineNumbers, index) ==
    \E k \in 1..Len(lineNumbers) : RangeTest(lineNumbers[k], LineNumber(index))

\* a fallback that highlights every line
AlwaysTrue(index) == TRUE

\* line 24
AlwaysFalse(index) == FALSE

\* the two function values the builder can return
NoClosure == [kind |-> "none", lineNumbers |-> <<>>]
ConstantClosure == [kind |-> "alwaysFalse", lineNumbers |-> <<>>]
RangeClosure(lineNumbers) == [kind |-> "inRange", lineNumbers |-> lineNumbers]

\* a call of a returned closure
Call(fn, index) ==
    IF fn.kind = "inRange" THEN InRange(fn.lineNumbers, index) ELSE AlwaysFalse(index)

\* a call that takes the first range off the array it walks (shift())
CallEffectShift(fn, index) ==
    IF fn.kind = "inRange" /\ fn.lineNumbers # <<>>
    THEN [fn EXCEPT !.lineNumbers = Tail(fn.lineNumbers)]
    ELSE fn

\* lines 14-22: what a call leaves of the closure: some and the destructuring
\* only read lineNumbers, and nothing is assigned
CallEffect(fn, index) == fn

\* the closure after the first m calls of the sequence idxs
RECURSIVE AfterCalls(_, _, _)
AfterCalls(fn, idxs, m) ==
    IF m = 0 THEN fn ELSE CallEffect(AfterCalls(fn, idxs, m - 1), idxs[m])

\* the record of one call
CallRecord(fn, index) == [index |-> index, answer |-> Call(fn, index)]

\* lines 11-12: .split(",").map((v) => v.split("-").map((y) => parseInt(y, 10)))
ParseTokens(content) ==
    LET tokens == Split(content, ",")
    IN [t \in 1..Len(tokens) |->
          LET parts == Split(tokens[t], "-")
          IN [q \in 1..Len(parts) |-> ParseInt(parts[q], 10)]]

\* lines 6-26.  RegEx.exec(meta)[1] throws a TypeError when exec returns null.
CalculateLinesToHighlight(meta, old) ==
    LET R == EvalRegExLiteral(old)
        s == ToString(meta)
        test == RegExpBuiltinExec(R, s)
    IN IF test.m.found
       THEN LET exec == RegExpBuiltinExec(test.re, s)
            IN IF exec.m.found
               THEN [threw |-> FALSE,
                     fn |-> RangeClosure(ParseTokens(exec.m.capture)),
                     re |-> exec.re]
               ELSE [threw |-> TRUE, fn |-> NoClosure, re |-> exec.re]
       ELSE [threw |-> FALSE, fn |-> ConstantClosure, re |-> test.re]

(***************************************************************************)
(* Inputs: what an author writes after the language tag of a code fence.   *)
(* An annotation is the abstract syntax; MetaOf writes it out as the       *)
(* string that reaches the component.                                      *)
(***************************************************************************)
RECURSIVE Dec(_)
Dec(n) == IF n < 10 THEN <<Digits[n + 1]>> ELSE Dec(n \div 10) \o <<Digits[(n % 10) + 1]>>

Bare(n) == [k |-> "bare", a |-> n, b |-> 0, s |-> <<>>]
Range(a, b) == [k |-> "range", a |-> a, b |-> b, s |-> <<>>]
Text(s) == [k |-> "text", a |-> 0, b |-> 0, s |-> s]

TokenText(tok) ==
    CASE tok.k = "bare" -> Dec(tok.a)
      [] tok.k = "range" -> Dec(tok.a) \o <<"-">> \o Dec(tok.b)
      [] OTHER -> tok.s

RECURSIVE Join(_)
Join(toks) ==
    IF Len(toks) = 1
    THEN TokenText(toks[1])
    ELSE TokenText(toks[1]) \o <<",">> \o Join(Tail(toks))

Brace(toks) == <<"{">> \o Join(toks) \o <<"}">>

RECURSIVE JoinGroups(_, _)
JoinGroups(groups, sep) ==
    IF Len(groups) = 1
    THEN Brace(groups[1])
    ELSE Brace(groups[1]) \o sep \o JoinGroups(Tail(groups), sep)

Absent == [kind |-> "absent", text |-> <<>>, groups |-> <<>>, sep |-> <<>>,
           prefix |-> <<>>, suffix |-> <<>>]
Raw(text) == [kind |-> "raw", text |-> text, groups |-> <<>>, sep |-> <<>>,
              prefix |-> <<>>, suffix |-> <<>>]
Grouped(prefix, groups, sep, suffix) ==
    [kind |-> "groups", text |-> <<>>, groups |-> groups, sep |-> sep,
     prefix |-> prefix, suffix |-> suffix]

MetaOf(a) ==
    CASE a.kind = "absent" -> NoMeta
      [] a.kind = "raw" -> a.text
      [] OTHER -> a.prefix \o JoinGroups(a.groups, a.sep) \o a.suffix

Nums == 0..MaxNum
BareTokens == {Bare(n) : n \in Nums}
RangeTokens == {Range(a, b) : a \in Nums, b \in Nums}
MalformedTokens ==
    {Text(s) : s \in {<<>>, <<"-">>, <<"2", "-">>, <<"-", "2">>,
                      <<"1", "-", "2", "-", "3">>, <<"0", "2">>}}
Tokens == BareTokens \cup RangeTokens \cup MalformedTokens

TokenLists == UNION {[1..n -> Tokens] : n \in 1..MaxTokens}

Alphabet == {"{", "}", ",", "-", "1", "a", " "}
RawTexts == UNION {[1..n -> Alphabet] : n \in 0..MaxRawLen}

Prefixes == {<<>>, <<"j", "s", "x", " ">>, <<"{", "a", "}">>, <<"{">>, <<"{", "1", ",">>}
Suffixes == {<<>>, <<" ", "x">>, <<"}">>, <<"{", "}">>, <<"1", "}">>}
Separators == {<<>>, <<" ">>}

\* the annotations of the posts and of the documented scenarios
Scenarios ==
    {Grouped(<<>>, <<g>>, <<>>, <<>>) :
        g \in {<<Bare(1), Bare(4)>>,
               <<Bare(2), Range(4, 6), Bare(9)>>,
               <<Range(3, 3)>>,
               <<Bare(12)>>,
               <<Bare(2), Bare(3), Bare(4)>>,
               <<Bare(4), Bare(7), Bare(13)>>}}
    \cup {Raw(<<"j", "s", "x">>), Raw(<<"{", "1", ",", "a", "}">>),
          Raw(<<"{", "1", ",", " ", "2", "}">>)}

Annotations ==
    {Absent}
    \cup {Raw(t) : t \in RawTexts}
    \cup {Grouped(<<>>, <<g>>, <<>>, <<>>) : g \in TokenLists}
    \cup {Grouped(p, <<<<t>>>>, <<>>, x) : p \in Prefixes, t \in Tokens, x \in Suffixes}
    \cup {Grouped(<<>>, <<<<t>>, <<u>>>>, sp, <<>>) :
            t \in Tokens, u \in Tokens, sp \in Separators}
    \cup Scenarios

(***************************************************************************)
(* The Code component                                                      *)
(***************************************************************************)
\* no call is running
Idle == [op |-> "none", at |-> "none", block |-> 0, index |-> 0, k |-> 0,
         visits |-> <<>>, tokens |-> <<>>, acc |-> <<>>]

Init ==
    /\ pc = [b \in Blocks |-> "unmounted"]
    /\ annotation = [b \in Blocks |-> Absent]
    /\ metastring = [b \in Blocks |-> NoMeta]
    /\ shouldHighlightLine = [b \in Blocks |-> NoClosure]
    /\ lines = [b \in Blocks |-> 0]
    /\ rendered = [b \in Blocks |-> <<>>]
    /\ RegEx = NoRegEx
    /\ calls = [b \in Blocks |-> <<>>]
    /\ builds = [b \in Blocks |-> 0]
    /\ frame = Idle

\* lines 28-32: the component function is called with the props of block b;
\* it builds the predicate and returns the Highlight element.  An exception
\* of the builder aborts the render.
Code(b, a) ==
    /\ pc[b] = "unmounted"
    /\ LET built == CalculateLinesToHighlight(MetaOf(a), RegEx)
       IN /\ pc' = [pc EXCEPT ![b] = IF built.threw THEN "error" ELSE "built"]
          /\ shouldHighlightLine' = [shouldHighlightLine EXCEPT ![b] = built.fn]
          /\ RegEx' = built.re
    /\ annotation' = [annotation EXCEPT ![b] = a]
    /\ metastring' = [metastring EXCEPT ![b] = MetaOf(a)]
    /\ builds' = [builds EXCEPT ![b] = @ + 1]
    /\ UNCHANGED <<lines, rendered, calls, frame>>

\* lines 53-56: the emphasis style object
EmphasisStyle ==
    [backgroundColor |-> "rgba(201, 167, 255, 0.2)",
     margin |-> "0px -0.75rem",
     padding |-> " 0px 5px",
     borderLeft |-> "5px solid rgb(201, 167, 255)"]

\* the value false given as style: getLineProps adds no style of its own
NoStyle == [backgroundColor |-> "", margin |-> "", padding |-> "", borderLeft |-> ""]

\* a style given to every line
StyleAlways(answer) == EmphasisStyle

\* line 52: shouldHighlightLine(i) && {...}
StyleFor(answer) == IF answer THEN EmphasisStyle ELSE NoStyle

\* a label that shows the index
LabelUnshifted(i) == i

\* line 68: {i + 1}
LabelOf(i) == i + 1

\* lines 47-73: the <div> of line i: its key, the number shown, its style
LineDiv(fn, i) ==
    [key |-> i,
     label |-> LabelOf(i),
     style |-> StyleFor(Call(fn, i)),
     emphasis |-> StyleFor(Call(fn, i)) = EmphasisStyle]

\* a map that leaves out the first line
LineIndicesFromOne(n) == [j \in 1..(n - 1) |-> j]

\* line 46: tokens.map((line, i) => ...) visits i = 0 .. n - 1 in order
LineIndices(n) == [j \in 1..n |-> j - 1]

\* lines 33-77: Highlight calls the render prop with the n tokenized lines;
\* tokens.map produces one <div> per line, in order
HighlightChildren(b, n) ==
    /\ pc[b] = "built"
    /\ pc' = [pc EXCEPT ![b] = "rendered"]
    /\ lines' = [lines EXCEPT ![b] = n]
    /\ LET idxs == LineIndices(n)
           before(j) == AfterCalls(shouldHighlightLine[b], idxs, j - 1)
       IN /\ rendered' = [rendered EXCEPT
                            ![b] = [j \in 1..Len(idxs) |-> LineDiv(before(j), idxs[j])]]
          /\ calls' = [calls EXCEPT
                         ![b] = @ \o [j \in 1..Len(idxs) |-> CallRecord(before(j), idxs[j])]]
          /\ shouldHighlightLine' = [shouldHighlightLine EXCEPT
                                       ![b] = AfterCalls(@, idxs, Len(idxs))]
    /\ UNCHANGED <<annotation, metastring, RegEx, builds, frame>>

\* line 52 alone: the closure of block b is called with the index i
Query(b, i) ==
    /\ pc[b] = "built"
    /\ Len(calls[b]) < MaxCalls
    /\ calls' = [calls EXCEPT ![b] = Append(@, CallRecord(shouldHighlightLine[b], i))]
    /\ shouldHighlightLine' = [shouldHighlightLine EXCEPT ![b] = CallEffect(@, i)]
    /\ UNCHANGED <<pc, annotation, metastring, lines, rendered, RegEx, builds, frame>>

\* the block leaves the page; its closure and output are dropped
Unmount(b) ==
    /\ pc[b] = "rendered"
    /\ pc' = [pc EXCEPT ![b] = "unmounted"]
    /\ annotation' = [annotation EXCEPT ![b] = Absent]
    /\ metastring' = [metastring EXCEPT ![b] = NoMeta]
    /\ shouldHighlightLine' = [shouldHighlightLine EXCEPT ![b] = NoClosure]
    /\ lines' = [lines EXCEPT ![b] = 0]
    /\ rendered' = [rendered EXCEPT ![b] = <<>>]
    /\ calls' = [calls EXCEPT ![b] = <<>>]
    /\ builds' = [builds EXCEPT ![b] = 0]
    /\ UNCHANGED <<RegEx, frame>>

\* one code block, every annotation
Mount(b, inputs) == pc[b] = "unmounted" /\ \E a \in inputs : Code(b, a)
Draw(b) == pc[b] = "built" /\ \E n \in 1..MaxLines : HighlightChildren(b, n)

Next ==
    \/ Mount(1, Annotations)
    \/ Draw(1)
    \/ Unmount(1)

Spec == Init /\ [][Next]_vars

\* several code blocks of one page, rendered in any interleaving
BlockAnnotations ==
    {Absent,
     Raw(<<"j", "s", "x">>),
     Grouped(<<>>, <<<<Bare(1)>>>>, <<>>, <<>>),
     Grouped(<<>>, <<<<Bare(2)>>>>, <<>>, <<>>),
     Grouped(<<>>, <<<<Range(1, 2), Bare(4)>>>>, <<>>, <<>>),
     Grouped(<<>>, <<<<Bare(1)>>, <<Bare(2)>>>>, <<>>, <<>>)}

NextBlocks ==
    \E b \in Blocks :
        \/ Mount(b, BlockAnnotations)
        \/ Draw(b)
        \/ Unmount(b)

SpecBlocks == Init /\ [][NextBlocks]_vars

(***************************************************************************)
(* The same calls followed step by step.  A step is one library call       *)
(* (test, exec, split) or one callback of map or some; the engine runs a   *)
(* call to its return before anything else happens.                        *)
(***************************************************************************)
\* a loop that does not advance
SameIndex(k) == k

\* some goes on with the next element after a callback that returned false
NextIndex(k) == k + 1

\* line 29 entered: line 7 creates the regular expression
BeginBuild(b, a) ==
    /\ frame = Idle
    /\ pc[b] = "unmounted"
    /\ pc' = [pc EXCEPT ![b] = "building"]
    /\ annotation' = [annotation EXCEPT ![b] = a]
    /\ metastring' = [metastring EXCEPT ![b] = MetaOf(a)]
    /\ builds' = [builds EXCEPT ![b] = @ + 1]
    /\ RegEx' = EvalRegExLiteral(RegEx)
    /\ frame' = [Idle EXCEPT !.op = "build", !.at = "test", !.block = b]
    /\ UNCHANGED <<shouldHighlightLine, lines, rendered, calls>>

\* line 9: RegEx.test(meta)
StepTest ==
    /\ frame.op = "build" /\ frame.at = "test"
    /\ LET r == RegExpBuiltinExec(RegEx, ToString(metastring[frame.block]))
       IN /\ RegEx' = r.re
          /\ frame' = [frame EXCEPT !.at = IF r.m.found THEN "exec" ELSE "else"]
    /\ UNCHANGED <<pc, annotation, metastring, shouldHighlightLine, lines, rendered,
                   calls, builds>>

\* lines 10-11: RegEx.exec(meta)[1].split(","); [1] of null throws
StepExec ==
    /\ frame.op = "build" /\ frame.at = "exec"
    /\ \E r \in {RegExpBuiltinExec(RegEx, ToString(metastring[frame.block]))} :
          /\ RegEx' = r.re
          /\ IF r.m.found
             THEN /\ frame' = [frame EXCEPT !.at = "map", !.k = 1,
                                            !.tokens = Split(r.m.capture, ",")]
                  /\ pc' = pc
             ELSE /\ frame' = Idle
                  /\ pc' = [pc EXCEPT ![frame.block] = "error"]
    /\ UNCHANGED <<annotation, metastring, shouldHighlightLine, lines, rendered,
                   calls, builds>>

\* line 12: one callback of the outer map
StepMap ==
    /\ frame.op = "build" /\ frame.at = "map"
    /\ frame.k <= Len(frame.tokens)
    /\ LET parts == Split(frame.tokens[frame.k], "-")
       IN frame' = [frame EXCEPT
                      !.acc = Append(@, [q \in 1..Len(parts) |-> ParseInt(parts[q], 10)]),
                      !.k = @ + 1]
    /\ UNCHANGED <<pc, annotation, metastring, shouldHighlightLine, lines, rendered,
                   RegEx, calls, builds>>

\* line 14: the closure over lineNumbers is returned
ReturnRange ==
    /\ frame.op = "build" /\ frame.at = "map"
    /\ frame.k > Len(frame.tokens)
    /\ shouldHighlightLine' = [shouldHighlightLine EXCEPT
                                 ![frame.block] = RangeClosure(frame.acc)]
    /\ pc' = [pc EXCEPT ![frame.block] = "built"]
    /\ frame' = Idle
    /\ UNCHANGED <<annotation, metastring, lines, rendered, RegEx, calls, builds>>

\* line 24: the constant closure is returned
ReturnConstant ==
    /\ frame.op = "build" /\ frame.at = "else"
    /\ shouldHighlightLine' = [shouldHighlightLine EXCEPT
                                 ![frame.block] = ConstantClosure]
    /\ pc' = [pc EXCEPT ![frame.block] = "built"]
    /\ frame' = Idle
    /\ UNCHANGED <<annotation, metastring, lines, rendered, RegEx, calls, builds>>

\* line 52: the closure of block b is entered with the index i
BeginCall(b, i) ==
    /\ frame = Idle
    /\ pc[b] = "built"
    /\ Len(calls[b]) < MaxCalls
    /\ frame' = [Idle EXCEPT
                   !.op = "call",
                   !.at = IF shouldHighlightLine[b].kind = "inRange"
                          THEN "some" ELSE "constant",
                   !.block = b, !.index = i, !.k = 1,
                   !.visits = [j \in 1..Len(shouldHighlightLine[b].lineNumbers) |-> 0]]
    /\ UNCHANGED <<pc, annotation, metastring, shouldHighlightLine, lines, rendered,
                   RegEx, calls, builds>>

\* the call returns answer to its caller
Return(answer) ==
    /\ calls' = [calls EXCEPT
                   ![frame.block] = Append(@, [index |-> frame.index, answer |-> answer])]
    /\ frame' = Idle

\* lines 17-19: one callback of some; some stops at the first true
StepSome ==
    /\ frame.op = "call" /\ frame.at = "some"
    /\ LET ranges == shouldHighlightLine[frame.block].lineNumbers
       IN IF frame.k > Len(ranges)
          THEN Return(FALSE)
          ELSE IF RangeTest(ranges[frame.k], LineNumber(frame.index))
               THEN /\ calls' = [calls EXCEPT
                                   ![frame.block] =
                                       Append(@, [index |-> frame.index, answer |-> TRUE])]
                    /\ frame' = Idle
               ELSE /\ frame' = [frame EXCEPT !.k = NextIndex(@),
                                              !.visits[frame.k] = @ + 1]
                    /\ calls' = calls
    /\ UNCHANGED <<pc, annotation, metastring, shouldHighlightLine, lines, rendered,
                   RegEx, builds>>

\* line 24: () => false
StepConstant ==
    /\ frame.op = "call" /\ frame.at = "constant"
    /\ Return(AlwaysFalse(frame.index))
    /\ UNCHANGED <<pc, annotation, metastring, shouldHighlightLine, lines, rendered,
                   RegEx, builds>>

\* the steps of the running call
Run ==
    \/ StepTest
    \/ StepExec
    \/ StepMap
    \/ ReturnRange
    \/ ReturnConstant
    \/ StepSome
    \/ StepConstant

StepAnnotations ==
    BlockAnnotations
    \cup {Raw(<<"{", "1", ",", "a", "}">>), Raw(<<"{", ",", "-", "}">>),
          Grouped(<<>>, <<<<Bare(2), Range(4, 6), Bare(9)>>>>, <<>>, <<>>)}

Enter(b) == frame = Idle /\ pc[b] = "unmounted" /\ \E a \in StepAnnotations : BeginBuild(b, a)
\* the line positions the step-level calls are made with
StepIndices == {0, 1, 3, 8}

Invoke(b) == frame = Idle /\ pc[b] = "built" /\ \E i \in StepIndices : BeginCall(b, i)
Leave(b) == frame = Idle /\ (Draw(b) \/ Unmount(b))

NextSteps ==
    \/ Enter(1)
    \/ Invoke(1)
    \/ Run
    \/ Leave(1)

SpecSteps == Init /\ [][NextSteps]_vars /\ WF_vars(Run)

\* one closure called by an arbitrary client: any indices, in any order,
\* repeated or not, before the block is drawn
QueryAnnotations == BlockAnnotations \cup Scenarios

Ask(b) == pc[b] = "built" /\ \E i \in Indices : Query(b, i)

NextQuery ==
    \/ Mount(1, QueryAnnotations)
    \/ Ask(1)
    \/ Draw(1)
    \/ Unmount(1)

SpecQuery == Init /\ [][NextQuery]_vars

(***************************************************************************)
(* Properties                                                              *)
(***************************************************************************)
Built(b) == pc[b] \in {"built", "rendered"}

\* the line numbers a token is documented to select
Listed(tok, L) ==
    CASE tok.k = "bare" -> L = tok.a
      [] tok.k = "range" -> tok.a <= L /\ L <= tok.b
      [] OTHER -> FALSE

WellFormed(tok) ==
    \/ tok.k = "bare" /\ tok.a >= 1
    \/ tok.k = "range" /\ 1 <= tok.a /\ tok.a <= tok.b

ListedInGroup(g, L) == \E k \in 1..Len(g) : Listed(g[k], L)

\* the indices at which the predicate of block b answers true
Highlighted(b, S) == {i \in S : Call(shouldHighlightLine[b], i)}

\* C1: for a group of well-formed tokens the predicate is true at index i
\* exactly when i + 1 is a bare token or lies in a range of the group
C1_WellFormedGroupExact ==
    \A b \in Blocks :
        (/\ Built(b)
         /\ annotation[b].kind = "groups"
         /\ \A k \in 1..Len(annotation[b].groups[1]) :
                WellFormed(annotation[b].groups[1][k]))
        => \A i \in Indices :
               Call(shouldHighlightLine[b], i)
                   <=> ListedInGroup(annotation[b].groups[1], i + 1)

\* "{2,4-6,9}" has been built and answers true at 1, 3, 4, 5, 8 only
C1_Witness ==
    /\ pc[1] = "built"
    /\ metastring[1] = <<"{", "2", ",", "4", "-", "6", ",", "9", "}">>
    /\ Highlighted(1, 0..10) = {1, 3, 4, 5, 8}

BraceFree(s) == \A k \in 1..Len(s) : s[k] \notin {"{", "}"}

\* C2: an absent, empty or brace-free meta string gives a predicate that is
\* false at every index
C2_NoAnnotationNoHighlight ==
    \A b \in Blocks :
        (/\ Built(b)
         /\ \/ annotation[b].kind = "absent"
            \/ annotation[b].kind = "raw" /\ BraceFree(annotation[b].text))
        => Highlighted(b, Indices) = {}

\* the bare language tag "jsx" has been built and drawn without emphasis
C2_Witness ==
    /\ pc[1] = "rendered"
    /\ metastring[1] = <<"j", "s", "x">>
    /\ lines[1] = MaxLines
    /\ \A j \in 1..Len(rendered[1]) : ~rendered[1][j].emphasis

\* the undefined and the empty meta string have been built
C2_WitnessAbsent == pc[1] = "built" /\ metastring[1] = NoMeta

IntegerToken(tok) == tok.k \in {"bare", "range"}

\* C3: every two-part token is a bounded range, start <= L <= end, for all
\* integers the syntax N-M admits (end = 0 included); every one-part token
\* matches exactly L = start; the predicate is the disjunction over the tokens
C3_TwoPartsAlwaysBounded ==
    \A b \in Blocks :
        (/\ Built(b)
         /\ annotation[b].kind = "groups"
         /\ \A k \in 1..Len(annotation[b].groups[1]) :
                IntegerToken(annotation[b].groups[1][k]))
        => \A i \in Indices :
               Call(shouldHighlightLine[b], i)
                   <=> ListedInGroup(annotation[b].groups[1], i + 1)

\* C4: a single range start-end with 1 <= start <= end is true exactly at
\* the indices start-1 .. end-1, and false just outside on both sides
C4_SingleRangeInclusive ==
    \A b \in Blocks :
        (/\ Built(b)
         /\ annotation[b].kind = "groups"
         /\ Len(annotation[b].groups) = 1
         /\ Len(annotation[b].groups[1]) = 1
         /\ annotation[b].groups[1][1].k = "range"
         /\ WellFormed(annotation[b].groups[1][1]))
        => LET start == annotation[b].groups[1][1].a
               end == annotation[b].groups[1][1].b
           IN /\ Highlighted(b, (-1)..MaxIndex) = (start - 1)..(end - 1)
              /\ ~Call(shouldHighlightLine[b], start - 2)
              /\ ~Call(shouldHighlightLine[b], end)

\* "{3-3}" has been built and is true at index 2 alone; so has a proper range
C4_Witness ==
    /\ pc[1] = "built"
    /\ metastring[1] = <<"{", "3", "-", "3", "}">>
    /\ Highlighted(1, (-1)..MaxIndex) = {2}

C4_WitnessProper ==
    /\ pc[1] = "built"
    /\ metastring[1] = <<"{", "1", "-", "2", "}">>
    /\ Highlighted(1, (-1)..MaxIndex) = {0, 1}

\* C5: every bare token n >= 1 of the bracket group is highlighted at index
\* n - 1, whatever the other tokens of the group are
C5_BareTokenHighlighted ==
    \A b \in Blocks :
        (Built(b) /\ annotation[b].kind = "groups")
        => \A k \in 1..Len(annotation[b].groups[1]) :
               LET tok == annotation[b].groups[1][k]
               IN (tok.k = "bare" /\ tok.a >= 1)
                  => Call(shouldHighlightLine[b], tok.a - 1)

\* a bare token stands next to a malformed one and is highlighted
C5_Witness ==
    /\ pc[1] = "built"
    /\ metastring[1] = <<"{", "-", "2", ",", "1", "}">>
    /\ Call(shouldHighlightLine[1], 0)

\* C6: the shift lineNumber = index + 1 is applied exactly once: a single
\* bare token N >= 1 is true at index N - 1 and nowhere else (not at N, not
\* at N - 2), and the token 0 is true at no index >= 0
C6_ShiftAppliedOnce ==
    \A b \in Blocks :
        (/\ Built(b)
         /\ annotation[b].kind = "groups"
         /\ Len(annotation[b].groups) = 1
         /\ Len(annotation[b].groups[1]) = 1
         /\ annotation[b].groups[1][1].k = "bare")
        => LET N == annotation[b].groups[1][1].a
           IN /\ N >= 1 => /\ Highlighted(b, (-1)..MaxIndex) = {N - 1}
                           /\ ~Call(shouldHighlightLine[b], N)
                           /\ ~Call(shouldHighlightLine[b], N - 2)
              /\ N = 0 => Highlighted(b, Indices) = {}

\* "{12}" has been built and is true at index 11 alone
C6_Witness ==
    /\ pc[1] = "built"
    /\ metastring[1] = <<"{", "1", "2", "}">>
    /\ Highlighted(1, (-1)..MaxIndex) = {11}

\* "{0}" has been built and is true at no index >= 0
C6_WitnessZero ==
    /\ pc[1] = "built"
    /\ metastring[1] = <<"{", "0", "}">>
    /\ Highlighted(1, Indices) = {}

\* the meta string of a group written alone
Alone(g) == Brace(g)

\* a group whose text the pattern accepts: at least one character
Recognised(g) == Join(g) # <<>>

\* C7: of several matching groups only the first counts: "{A}{B}" and
\* "{A} {B}" give the predicate of "{A}", and a line listed only in B is
\* not highlighted
C7_FirstGroupOnly ==
    \A b \in Blocks :
        (/\ Built(b)
         /\ annotation[b].kind = "groups"
         /\ Len(annotation[b].groups) = 2
         /\ Recognised(annotation[b].groups[1])
         /\ Recognised(annotation[b].groups[2]))
        => LET A == annotation[b].groups[1]
               B == annotation[b].groups[2]
               alone == CalculateLinesToHighlight(Alone(A), NoRegEx).fn
           IN /\ \A i \in Indices :
                     Call(shouldHighlightLine[b], i) <=> Call(alone, i)
              /\ (\A k \in 1..Len(A) : WellFormed(A[k]))
                 => \A i \in Indices :
                        (ListedInGroup(B, i + 1) /\ ~ListedInGroup(A, i + 1))
                        => ~Call(shouldHighlightLine[b], i)

\* "{1} {2}" has been built: line 1 is highlighted and line 2 is not
C7_Witness ==
    /\ pc[1] = "built"
    /\ metastring[1] = <<"{", "1", "}", " ", "{", "2", "}">>
    /\ Highlighted(1, Indices) = {0}

\* C8: no meta value makes the builder or the predicate throw: no block is
\* ever in the error state, every built block holds one of the two
\* closures, and every answer is a boolean
C8_NeverThrows ==
    \A b \in Blocks :
        /\ pc[b] # "error"
        /\ Built(b) =>
             /\ shouldHighlightLine[b].kind \in {"inRange", "alwaysFalse"}
             /\ \A i \in Indices : Call(shouldHighlightLine[b], i) \in BOOLEAN
        /\ \A j \in 1..Len(rendered[b]) : rendered[b][j].emphasis \in BOOLEAN

\* a group of empty tokens only, "{,-}", has been built and drawn
C8_Witness ==
    /\ pc[1] = "rendered"
    /\ metastring[1] = <<"{", ",", "-", "}">>
    /\ shouldHighlightLine[1].kind = "inRange"
    /\ Len(rendered[1]) = MaxLines

\* s holds a substring "{", one or more of 0-9 , - and then "}"
HasMatchingGroup(s) ==
    \E i \in 1..Len(s) : \E j \in (i + 2)..Len(s) :
        /\ s[i] = "{"
        /\ s[j] = "}"
        /\ \A k \in (i + 1)..(j - 1) :
               s[k] \in {"0", "1", "2", "3", "4", "5", "6", "7", "8", "9", ",", "-"}

\* s holds a brace pair that is not such a group
HasBraces(s) ==
    \E i \in 1..Len(s) : \E j \in (i + 1)..Len(s) : s[i] = "{" /\ s[j] = "}"

\* C9: a brace group with a character other than a digit, comma or hyphen
\* (or with nothing) inside is not recognised: with no matching group in
\* the meta string, the predicate is false at every index
C9_ForeignCharacterNotRecognised ==
    \A b \in Blocks :
        (/\ Built(b)
         /\ metastring[b] # NoMeta
         /\ HasBraces(metastring[b])
         /\ ~HasMatchingGroup(metastring[b]))
        => /\ shouldHighlightLine[b].kind = "alwaysFalse"
           /\ Highlighted(b, Indices) = {}

\* "{1,a}" has been built and highlights nothing
C9_Witness ==
    /\ pc[1] = "built"
    /\ metastring[1] = <<"{", "1", ",", "a", "}">>
    /\ Highlighted(1, Indices) = {}

\* C10: two builds from the same meta string answer alike at every index,
\* whatever was built, drawn or dropped in between
C10_SameMetaSamePredicate ==
    \A b \in Blocks : \A c \in Blocks :
        (Built(b) /\ Built(c) /\ metastring[b] = metastring[c])
        => \A i \in Indices :
               Call(shouldHighlightLine[b], i) <=> Call(shouldHighlightLine[c], i)

\* two blocks carry "{1}{2}"; the second was built after the first was drawn
C10_Witness ==
    /\ pc[1] = "rendered"
    /\ pc[2] = "built"
    /\ metastring[1] = <<"{", "1", "}", "{", "2", "}">>
    /\ metastring[2] = metastring[1]
    /\ Highlighted(1, Indices) = {0}
    /\ Highlighted(2, Indices) = {0}

\* a step that leaves block b with a closure keeps its parsed ranges
RangesKept ==
    \A b \in Blocks :
        (Built(b) /\ pc'[b] \in {"built", "rendered"})
        => shouldHighlightLine'[b] = shouldHighlightLine[b]

\* calls of one closure with the same index got the same answer
AnswersAgree ==
    \A b \in Blocks : \A j \in 1..Len(calls[b]) : \A k \in 1..Len(calls[b]) :
        calls[b][j].index = calls[b][k].index
        => calls[b][j].answer = calls[b][k].answer

\* C11: a built predicate is pure: no call, in any order and with repeated
\* indices, changes the parsed ranges, and every call with index i returns
\* what the first call with i returned
C11_PredicatePure == [][RangesKept]_vars /\ []AnswersAgree

\* "{1,4}" was called with 3, then 0, then drawn (0, 1, ...): the ranges are
\* the parsed ones and index 0 was answered twice alike
C11_Witness ==
    /\ pc[1] = "rendered"
    /\ metastring[1] = <<"{", "1", ",", "4", "}">>
    /\ Len(calls[1]) >= 4
    /\ calls[1][1] = [index |-> 3, answer |-> TRUE]
    /\ calls[1][2] = [index |-> 0, answer |-> TRUE]
    /\ calls[1][3] = [index |-> 0, answer |-> TRUE]
    /\ calls[1][4] = [index |-> 1, answer |-> FALSE]
    /\ shouldHighlightLine[1].lineNumbers = <<<<Num(1)>>, <<Num(4)>>>>

\* the closure a block gets when its meta string is the only one ever built
BuiltAlone(meta) == CalculateLinesToHighlight(meta, NoRegEx).fn

\* the answers of the predicate built from the group g alone
AnswersOf(g) ==
    LET alone == BuiltAlone(Alone(g))
    IN {i \in Indices : Call(alone, i)}

\* a step that is not a step of block b leaves b's closure and output alone
OthersUntouched ==
    \A b \in Blocks :
        pc'[b] = pc[b]
        => /\ shouldHighlightLine'[b] = shouldHighlightLine[b]
           /\ rendered'[b] = rendered[b]
           /\ calls'[b] = calls[b]
           /\ metastring'[b] = metastring[b]

\* every block answers, and has answered, as if it were built and drawn alone
AnswersAsAlone ==
    \A b \in Blocks :
        Built(b)
        => /\ \A i \in Indices :
                  Call(shouldHighlightLine[b], i) <=> Call(BuiltAlone(metastring[b]), i)
           /\ \A j \in 1..Len(calls[b]) :
                  calls[b][j].answer
                      <=> Call(BuiltAlone(metastring[b]), calls[b][j].index)

\* C12: selectors of different blocks are independent: under every
\* interleaving of the builds and draws of the blocks each predicate answers
\* as if built and queried alone, and a step of one block changes no other
\* block's parsed ranges or results
C12_BlocksIndependent == [][OthersUntouched]_vars /\ []AnswersAsAlone

\* two blocks with different meta strings are on the page, the first drawn
\* after the second was built
C12_Witness ==
    /\ pc[1] = "rendered"
    /\ pc[2] = "built"
    /\ metastring[1] = <<"{", "1", "}">>
    /\ metastring[2] = <<"{", "1", "-", "2", ",", "4", "}">>
    /\ Len(calls[1]) = MaxLines
    /\ calls[1][1].answer /\ ~calls[1][2].answer
    /\ Highlighted(2, Indices) = {0, 1, 3}

\* the tokens with a part that does not parse as an integer: the empty token,
\* the lone hyphen, a trailing hyphen, a leading hyphen
Unparsable(tok) ==
    tok.k = "text" /\ tok.s \in {<<>>, <<"-">>, <<"2", "-">>, <<"-", "2">>}

Parsable(tok) == ~Unparsable(tok)

\* C13: in a matching group a token with a part that does not parse never
\* matches a line: the predicate is the one of the group without that token
\* (and false everywhere when no other token is left)
C13_UnparsableTokenNeverMatches ==
    \A b \in Blocks :
        (/\ Built(b)
         /\ annotation[b].kind = "groups"
         /\ Len(annotation[b].groups) = 1
         /\ Recognised(annotation[b].groups[1])
         /\ \E k \in 1..Len(annotation[b].groups[1]) :
                Unparsable(annotation[b].groups[1][k]))
        => LET kept == SelectSeq(annotation[b].groups[1], Parsable)
           IN IF kept = <<>>
              THEN Highlighted(b, Indices) = {}
              ELSE Highlighted(b, Indices) = AnswersOf(kept)

\* C14: text before and after the bracket group does not count: with a
\* prefix and a suffix that hold no matching group themselves, prefix {G}
\* suffix gives the predicate of {G}
C14_SurroundingTextIgnored ==
    \A b \in Blocks :
        (/\ Built(b)
         /\ annotation[b].kind = "groups"
         /\ Len(annotation[b].groups) = 1
         /\ ~HasMatchingGroup(annotation[b].prefix)
         /\ ~HasMatchingGroup(annotation[b].suffix))
        => Highlighted(b, Indices) = AnswersOf(annotation[b].groups[1])

\* "jsx {1-2} x" has been built and highlights lines 1 and 2
C14_Witness ==
    /\ pc[1] = "built"
    /\ metastring[1] = <<"j", "s", "x", " ", "{", "1", "-", "2", "}", " ", "x">>
    /\ Highlighted(1, Indices) = {0, 1}

\* while some walks the ranges, those before the cursor were examined once
\* and the others not yet
ExaminedOnce ==
    frame.op = "call"
    => \A j \in 1..Len(frame.visits) :
           frame.visits[j] = IF j < frame.k THEN 1 ELSE 0

\* the step-by-step calls return what the calls taken whole return
StepsAgree ==
    /\ pc[1] = "built"
       => shouldHighlightLine[1] = CalculateLinesToHighlight(metastring[1], NoRegEx).fn
    /\ pc[1] # "error"
    /\ \A j \in 1..Len(calls[1]) :
           calls[1][j].answer <=> Call(shouldHighlightLine[1], calls[1][j].index)

\* C15: building and answering terminate: every call that has been entered
\* returns, and a predicate call examines each parsed range at most once
C15_CallsTerminate == []ExaminedOnce /\ ((frame # Idle) ~> (frame = Idle))

\* the predicate of "{2,4-6,9}" is being called with index 8: two ranges
\* have been examined once, the third is next
C15_Witness ==
    /\ frame.op = "call"
    /\ frame.index = 8
    /\ metastring[1] = <<"{", "2", ",", "4", "-", "6", ",", "9", "}">>
    /\ frame.k = 3
    /\ frame.visits = <<1, 1, 0>>

\* the builder is in its map over the tokens of "{2,4-6,9}"
C15_WitnessBuild ==
    /\ frame.op = "build"
    /\ frame.at = "map"
    /\ frame.k = 2
    /\ frame.tokens = <<<<"2">>, <<"4", "-", "6">>, <<"9">>>>

\* the builder has returned b's closure and nothing has called it yet
Returned(b) == pc[b] = "built" /\ calls[b] = <<>>

Orders(n) == {f \in [1..n -> 1..n] : \A i \in 1..n : \A j \in 1..n : f[i] = f[j] => i = j}

\* the well-formed ranges that lie inside a range of g
CoveredRanges(g) ==
    {r \in UNION {{Range(a, b) : a \in g[k].a..g[k].b, b \in g[k].a..g[k].b} :
                     k \in {j \in 1..Len(g) : g[j].k = "range" /\ WellFormed(g[j])}} :
        r.a <= r.b}

\* C16: order and multiplicity of the tokens do not count: the tokens in
\* another order, a token written twice, or a range added that another
\* range covers give a predicate equal at every index
C16_OrderAndMultiplicityIrrelevant ==
    \A b \in Blocks :
        (/\ Returned(b)
         /\ annotation[b].kind = "groups"
         /\ Len(annotation[b].groups) = 1
         /\ annotation[b].prefix = <<>>
         /\ annotation[b].suffix = <<>>)
        => LET g == annotation[b].groups[1]
               here == Highlighted(b, Indices)
           IN /\ \A f \in Orders(Len(g)) :
                     AnswersOf([j \in 1..Len(g) |-> g[f[j]]]) = here
              /\ \A k \in 1..Len(g) : AnswersOf(Append(g, g[k])) = here
              /\ \A r \in CoveredRanges(g) : AnswersOf(Append(g, r)) = here

\* "{1-2,1}" has been built: it answers as "{1,1-2}", "{1-2,1,1}" and
\* "{1-2,1,2-2}" do
C16_Witness ==
    /\ pc[1] = "built"
    /\ annotation[1].groups = <<<<Range(1, 2), Bare(1)>>>>
    /\ metastring[1] = <<"{", "1", "-", "2", ",", "1", "}">>
    /\ Highlighted(1, Indices) = {0, 1}
    /\ Range(2, 2) \in CoveredRanges(annotation[1].groups[1])

\* C17: in one render the meta string is parsed exactly once, before any
\* line is queried; the predicate is then called exactly once for each line
\* position 0 .. n-1, and every answer is that of the predicate of the
\* block's own meta string
C17_ParsedOnceQueriedOncePerLine ==
    \A b \in Blocks :
        /\ pc[b] = "unmounted" => builds[b] = 0 /\ calls[b] = <<>>
        /\ pc[b] = "built" => builds[b] = 1 /\ calls[b] = <<>>
        /\ pc[b] = "rendered" =>
             /\ builds[b] = 1
             /\ Len(calls[b]) = lines[b]
             /\ \A j \in 1..lines[b] :
                    /\ calls[b][j].index = j - 1
                    /\ calls[b][j].answer
                           <=> Call(BuiltAlone(metastring[b]), j - 1)

\* a block of MaxLines lines has been drawn from "{1-2,4}" while another
\* block was built from "{2}" and is not drawn yet
C17_Witness ==
    /\ pc[1] = "rendered"
    /\ metastring[1] = <<"{", "1", "-", "2", ",", "4", "}">>
    /\ lines[1] = MaxLines
    /\ builds[1] = 1
    /\ calls[1][1] = [index |-> 0, answer |-> TRUE]
    /\ calls[1][3] = [index |-> 2, answer |-> FALSE]
    /\ pc[2] = "built"
    /\ metastring[2] = <<"{", "2", "}">>
    /\ calls[2] = <<>>

\* C18: a drawn line at position i carries the emphasis style if and only
\* if the block's predicate answers true for i; a line for which it answers
\* false is given no style object
C18_EmphasisIffPredicate ==
    \A b \in Blocks :
        pc[b] = "rendered"
        => /\ Len(rendered[b]) = lines[b]
           /\ \A j \in 1..Len(rendered[b]) :
                  LET i == rendered[b][j].key
                  IN /\ i = j - 1
                     /\ rendered[b][j].style = EmphasisStyle
                            <=> Call(shouldHighlightLine[b], i)
                     /\ ~Call(shouldHighlightLine[b], i)
                            => rendered[b][j].style = NoStyle
                     /\ calls[b][j].answer <=> rendered[b][j].style = EmphasisStyle

\* "{2,2-2}" has been drawn on three lines: only the second carries the style
C18_Witness ==
    /\ pc[1] = "rendered"
    /\ metastring[1] = <<"{", "2", ",", "2", "-", "2", "}">>
    /\ Len(rendered[1]) = 3
    /\ rendered[1][1].style = NoStyle
    /\ rendered[1][2].style = EmphasisStyle
    /\ rendered[1][3].style = NoStyle

\* C19: the number shown next to line i is i + 1, and for a group of
\* well-formed tokens a drawn line is emphasized exactly when the number it
\* shows is a bare token or lies in a range of the group
C19_LabelAgreesWithAnnotation ==
    \A b \in Blocks :
        pc[b] = "rendered"
        => \A j \in 1..Len(rendered[b]) :
               /\ rendered[b][j].label = rendered[b][j].key + 1
               /\ (/\ annotation[b].kind = "groups"
                   /\ \A k \in 1..Len(annotation[b].groups[1]) :
                          WellFormed(annotation[b].groups[1][k]))
                  => (rendered[b][j].style = EmphasisStyle
                          <=> ListedInGroup(annotation[b].groups[1],
                                            rendered[b][j].label))

\* "{2,3,4}" has been drawn on three lines: the lines numbered 2 and 3 are
\* emphasized, the line numbered 1 is not
C19_Witness ==
    /\ pc[1] = "rendered"
    /\ metastring[1] = <<"{", "2", ",", "3", ",", "4", "}">>
    /\ Len(rendered[1]) = 3
    /\ rendered[1][1].label = 1 /\ rendered[1][1].style = NoStyle
    /\ rendered[1][2].label = 2 /\ rendered[1][2].style = EmphasisStyle
    /\ rendered[1][3].label = 3 /\ rendered[1][3].style = EmphasisStyle

\* a range written backwards, N-M with N > M >= 1
Reversed(tok) == tok.k = "range" /\ tok.a > tok.b /\ tok.b >= 1

Forward(tok) == ~Reversed(tok)

\* C20: a reversed range matches no line: a group of reversed ranges only
\* is false at every index, and a reversed range next to other tokens leaves
\* the predicate of those tokens as it is
C20_ReversedRangeEmpty ==
    \A b \in Blocks :
        (/\ Built(b)
         /\ annotation[b].kind = "groups"
         /\ Len(annotation[b].groups) = 1
         /\ \E k \in 1..Len(annotation[b].groups[1]) :
                Reversed(annotation[b].groups[1][k]))
        => LET kept == SelectSeq(annotation[b].groups[1], Forward)
           IN IF kept = <<>>
              THEN Highlighted(b, Indices) = {}
              ELSE Highlighted(b, Indices) = AnswersOf(kept)

\* "{2-1}" has been built and highlights nothing; "{2-1,1}" highlights line 1
C20_Witness ==
    /\ pc[1] = "built"
    /\ metastring[1] = <<"{", "2", "-", "1", "}">>
    /\ shouldHighlightLine[1].lineNumbers = <<<<Num(2), Num(1)>>>>
    /\ Highlighted(1, Indices) = {}

C20_WitnessBeside ==
    /\ pc[1] = "built"
    /\ metastring[1] = <<"{", "2", "-", "1", ",", "1", "}">>
    /\ Highlighted(1, Indices) = {0}

\* a two-part token whose end part is 0, N-0 with N >= 1
ZeroEnded(tok) == tok.k = "range" /\ tok.a >= 1 /\ tok.b = 0

\* C21: a range token N-0 (N >= 1) is handled by the single-line branch:
\* both parts are parsed, and the predicate of "{N-0}" is true at index N-1
\* and only there, as the predicate of "{N}" is
C21_ZeroEndIsSingleLine ==
    \A b \in Blocks :
        (/\ Built(b)
         /\ annotation[b].kind = "groups"
         /\ Len(annotation[b].groups) = 1
         /\ ~HasMatchingGroup(annotation[b].prefix)
         /\ ~HasMatchingGroup(annotation[b].suffix)
         /\ Len(annotation[b].groups[1]) = 1
         /\ ZeroEnded(annotation[b].groups[1][1]))
        => LET N == annotation[b].groups[1][1].a
           IN /\ shouldHighlightLine[b].kind = "inRange"
              /\ shouldHighlightLine[b].lineNumbers = <<<<Num(N), Num(0)>>>>
              /\ Highlighted(b, Indices) = {N - 1}
              /\ Highlighted(b, Indices) = AnswersOf(<<Bare(N)>>)

\* "{2-0}" has been built and highlights the second line only
C21_Witness ==
    /\ pc[1] = "built"
    /\ metastring[1] = <<"{", "2", "-", "0", "}">>
    /\ shouldHighlightLine[1].lineNumbers = <<<<Num(2), Num(0)>>>>
    /\ Highlighted(1, Indices) = {1}

\* a brace group of digits, commas and hyphens opens at position i of s
GroupAt(s, i) ==
    /\ s[i] = "{"
    /\ \E j \in (i + 2)..Len(s) :
           /\ s[j] = "}"
           /\ \A k \in (i + 1)..(j - 1) :
                  s[k] \in {"0", "1", "2", "3", "4", "5", "6", "7", "8", "9", ",", "-"}

\* the text between the braces of the leftmost such group of s
FirstGroupText(s) ==
    LET i == CHOOSE p \in 1..Len(s) :
                 GroupAt(s, p) /\ \A q \in 1..(p - 1) : ~GroupAt(s, q)
        j == CHOOSE p \in (i + 1)..Len(s) :
                 s[p] = "}" /\ \A q \in (i + 1)..(p - 1) : s[q] # "}"
    IN SubSeq(s, i + 1, j - 1)

\* the integers written in t: the values of its maximal runs of digits
WrittenIntegers(t) ==
    {DigitsValue(SubSeq(t, p, Len(t)), 0) :
        p \in {q \in 1..Len(t) : IsDigit(t[q]) /\ (q = 1 \/ ~IsDigit(t[q - 1]))}}

\* C22: the highlighted set is bounded by the numbers written in the group:
\* when the meta string has a matching group and the predicate is true at
\* index i, i + 1 is at least the smallest and at most the largest integer
\* written in that group, so only finitely many lines are highlighted
C22_HighlightedWithinWrittenNumbers ==
    \A b \in Blocks :
        (/\ Built(b)
         /\ metastring[b] # NoMeta
         /\ HasMatchingGroup(metastring[b]))
        => LET written == WrittenIntegers(FirstGroupText(metastring[b]))
           IN \A i \in Highlighted(b, Indices) :
                  /\ \E lo \in written : lo <= i + 1
                  /\ \E hi \in written : i + 1 <= hi

\* "{2,4-6,9}" has been built: lines 2, 4, 5, 6 and 9 are highlighted, all
\* between 2 and 9, and the indices past 8 are not
C22_Witness ==
    /\ pc[1] = "built"
    /\ metastring[1] = <<"{", "2", ",", "4", "-", "6", ",", "9", "}">>
    /\ WrittenIntegers(FirstGroupText(metastring[1])) = {2, 4, 6, 9}
    /\ Highlighted(1, Indices) = {1, 3, 4, 5, 8}
    /\ MaxIndex > 8

====
